---- MODULE Spec2Model ----
(***************************************************************************)
(* A model of tcx_to_csv.py: the command line dispatch (main), the batch   *)
(* converter (batch_convert_tcx_files) and the conversion of one recording *)
(* (parse_tcx_to_csv) with its helpers.                                    *)
(*                                                                         *)
(* File names and command-line arguments are sequences of character codes  *)
(* (so that lower(), endswith(), replace() and sorted() act on them as in  *)
(* Python); a rendered CSV cell is a sequence of one-character strings, so   *)
(* that the summary can parse the lap cells back as the code does.         *)
(* Durations are integers in hundredths of a second, distances in metres,  *)
(* altitudes and ascents in decimetres.                                    *)
(* An optional XML element is <<>> when absent and <<v>> when present.     *)
(***************************************************************************)
EXTENDS Integers, Sequences, FiniteSets, TLC

(***************************************************************************)
(* Bounds of the exploration.                                              *)
(***************************************************************************)
MaxFiles == 2      \* files in the input directory
MaxRuns == 2       \* invocations of the program in a row

(***************************************************************************)
(* String helpers (Python str methods on sequences of character codes).    *)
(***************************************************************************)
TcxExt == <<46, 116, 99, 120>>                 \* ".tcx"
CsvExt == <<46, 99, 115, 118>>                 \* ".csv"
BatchFlag == <<45, 45, 98, 97, 116, 99, 104>>  \* "--batch"

Lower(s) == [k \in 1..Len(s) |-> IF s[k] >= 65 /\ s[k] <= 90 THEN s[k] + 32 ELSE s[k]]

EndsWith(s, suf) ==
    /\ Len(s) >= Len(suf)
    /\ SubSeq(s, Len(s) - Len(suf) + 1, Len(s)) = suf

StartsWith(s, pre) ==
    /\ Len(s) >= Len(pre)
    /\ SubSeq(s, 1, Len(pre)) = pre

\* str.replace(old, new): every non-overlapping occurrence, left to right
RECURSIVE Replace(_, _, _)
Replace(s, old, new) ==
    IF Len(s) < Len(old) THEN s
    ELSE IF StartsWith(s, old)
         THEN new \o Replace(SubSeq(s, Len(old) + 1, Len(s)), old, new)
         ELSE <<Head(s)>> \o Replace(Tail(s), old, new)

\* the order of Python's str comparison: by code point, a prefix first
LexLess(a, b) ==
    \E k \in 1..(Len(b)) :
        /\ k <= Len(a) + 1
        /\ \A j \in 1..(k - 1) : a[j] = b[j]
        /\ (k = Len(a) + 1 \/ a[k] < b[k])

RECURSIVE Sorted(_)
Sorted(S) ==
    IF S = {} THEN <<>>
    ELSE LET m == CHOOSE x \in S : \A y \in S \ {x} : LexLess(x, y)
         IN  <<m>> \o Sorted(S \ {m})

(***************************************************************************)
(* Rendering and parsing of numbers (str(), int(), float(), f-strings).    *)
(***************************************************************************)
DigitChars == <<"0", "1", "2", "3", "4", "5", "6", "7", "8", "9">>

RECURSIVE Str(_)
Str(n) == IF n < 10 THEN <<DigitChars[n + 1]>>
          ELSE Str(n \div 10) \o <<DigitChars[(n % 10) + 1]>>

DigitVal(c) == CHOOSE d \in 0..9 : DigitChars[d + 1] = c

RECURSIVE ParseInt(_)
ParseInt(s) == IF s = <<>> THEN 0
               ELSE ParseInt(SubSeq(s, 1, Len(s) - 1)) * 10 + DigitVal(s[Len(s)])

\* float() of a cell with two decimals, in hundredths
ParseFloat2(s) == ParseInt(SelectSeq(s, LAMBDA c : c # "."))

Pad2(n) == IF n < 10 THEN <<"0">> \o Str(n) ELSE Str(n)

RoundHalfEven(n, d) ==
    LET q == n \div d
        r == n % d
    IN  IF 2 * r < d THEN q
        ELSE IF 2 * r > d THEN q + 1
        ELSE IF q % 2 = 0 THEN q ELSE q + 1

\* f"{x:.2f}" of a value given in hundredths
Fmt2(h) == Str(h \div 100) \o <<".">> \o Pad2(h % 100)

\* seconds (in hundredths) -> "M:SS.s"
format_seconds_to_time(seconds) ==
    LET minutes == seconds \div 6000
        remaining_seconds == seconds % 6000
        tenths == RoundHalfEven(remaining_seconds, 10)
    IN  Str(minutes) \o <<":">> \o Pad2(tenths \div 10) \o <<".">> \o Str(tenths % 10)

\* pace as the exact fraction num/den seconds per km -> "M:SS", "" for 0
format_seconds_to_pace(num, den) ==
    IF num = 0 THEN <<>>
    ELSE LET whole == num \div den
             minutes == whole \div 60
             remaining_seconds == whole % 60
         IN  Str(minutes) \o <<":">> \o Pad2(remaining_seconds)

\* the time itself, whatever the distance
PaceSecondsOfTime(time_cs, dist_num, dist_den) == <<time_cs, 100>>

\* total_time / distance if distance > 0 else 0, as a fraction <<num, den>>
PaceSeconds(time_cs, dist_num, dist_den) ==
    IF dist_num > 0 THEN <<time_cs * dist_den, 100 * dist_num>> ELSE <<0, 1>>

(***************************************************************************)
(* calculate_ascent: trackpoints is the sequence of the lap's trackpoints, *)
(* each the optional altitude of the point.                                *)
(***************************************************************************)
\* a trackpoint without altitude unsets the cursor
RECURSIVE AscentResetting(_, _, _)
AscentResetting(trackpoints, previous_altitude, total_ascent) ==
    IF trackpoints = <<>> THEN total_ascent
    ELSE LET altitude_elem == Head(trackpoints)
         IN  IF altitude_elem # <<>>
             THEN LET current_altitude == altitude_elem[1]
                  IN  AscentResetting(Tail(trackpoints), <<current_altitude>>,
                          IF previous_altitude # <<>> /\ current_altitude > previous_altitude[1]
                          THEN total_ascent + (current_altitude - previous_altitude[1])
                          ELSE total_ascent)
             ELSE AscentResetting(Tail(trackpoints), <<>>, total_ascent)

RECURSIVE AscentFrom(_, _, _)
AscentFrom(trackpoints, previous_altitude, total_ascent) ==
    IF trackpoints = <<>> THEN total_ascent
    ELSE LET altitude_elem == Head(trackpoints)
         IN  IF altitude_elem # <<>>
             THEN LET current_altitude == altitude_elem[1]
                  IN  AscentFrom(Tail(trackpoints), <<current_altitude>>,
                          IF previous_altitude # <<>> /\ current_altitude > previous_altitude[1]
                          THEN total_ascent + (current_altitude - previous_altitude[1])
                          ELSE total_ascent)
             ELSE AscentFrom(Tail(trackpoints), previous_altitude, total_ascent)

\* the cursor starts at altitude 0 instead of unset
AscentFromSeaLevel(lap) ==
    IF Len(lap.trackpoints) < 2 THEN 0
    ELSE AscentFrom(lap.trackpoints, <<0>>, 0)

calculate_ascent(lap) ==
    IF Len(lap.trackpoints) < 2 THEN 0
    ELSE AscentFrom(lap.trackpoints, <<>>, 0)

(***************************************************************************)
(* The rows of parse_tcx_to_csv.  A row maps every column to its cell.     *)
(***************************************************************************)
Columns ==
    << "Laps", "Time", "Cumulative Time", "Distancekm", "Avg Pacemin/km",
       "Avg GAPmin/km", "Avg HRbpm", "Max HRbpm", "Total Ascentm",
       "Total Descentm", "Avg PowerW", "Avg W/kg", "Max PowerW", "Max W/kg",
       "Avg Run Cadencespm", "Avg Ground Contact Timems", "Avg GCT Balance%",
       "Avg Stride Lengthm", "Avg Vertical Oscillationcm",
       "Avg Vertical Ratio%", "CaloriesC", "Avg Temperature",
       "Best Pacemin/km", "Max Run Cadencespm", "Moving Time",
       "Avg Moving Pacemin/km", "Avg Step Speed Losscm/s",
       "Avg Step Speed Loss Percent%" >>

ColumnSet == {Columns[k] : k \in 1..Len(Columns)}

SummaryLabel == <<"S", "u", "m", "m", "a", "r", "y">>

\* the lap lacks an element whose .text the loop reads unconditionally
MissingRequired(lap) ==
    \/ lap.TotalTimeSeconds = <<>>
    \/ lap.DistanceMeters = <<>>
    \/ lap.Calories = <<>>

\* the column is left blank
MovingBlank(cell) == <<>>

\* 'Best Pacemin/km': pace_str, 'Moving Time': time_str, 'Avg Moving
\* Pacemin/km': pace_str: the columns that repeat another one "for now"
MovingSame(cell) == cell

\* the ascent is printed also when it is zero
AscentCellAlways(ascent) == Fmt2(ascent)

\* f"{ascent:.2f}" if ascent > 0 else "", the ascent in 1/100 m
AscentCell(ascent) == IF ascent > 0 THEN Fmt2(ascent) ELSE <<>>

\* one iteration of the lap loop: the row of lap i; cumulative_time already
\* includes this lap
LapData(i, lap, cumulative_time) ==
    LET total_time == lap.TotalTimeSeconds[1]
        distance == lap.DistanceMeters[1]          \* metres; km = distance/1000
        calories == lap.Calories[1]
        avg_hr == IF lap.AverageHeartRateBpm # <<>>
                  THEN Str(lap.AverageHeartRateBpm[1]) ELSE <<>>
        max_hr == IF lap.MaximumHeartRateBpm # <<>>
                  THEN Str(lap.MaximumHeartRateBpm[1]) ELSE <<>>
        lap_ascent == calculate_ascent(lap)
        time_str == format_seconds_to_time(total_time)
        cumulative_time_str == format_seconds_to_time(cumulative_time)
        pace_seconds == PaceSeconds(total_time, distance, 1000)
        pace_str == format_seconds_to_pace(pace_seconds[1], pace_seconds[2])
    IN  [c \in ColumnSet |->
            CASE c = "Laps" -> Str(i)
              [] c = "Time" -> time_str
              [] c = "Cumulative Time" -> cumulative_time_str
              [] c = "Distancekm" -> Fmt2(RoundHalfEven(distance, 10))
              [] c = "Avg Pacemin/km" -> pace_str
              [] c = "Avg GAPmin/km" -> pace_str
              [] c = "Avg HRbpm" -> avg_hr
              [] c = "Max HRbpm" -> max_hr
              [] c = "Total Ascentm" ->
                     AscentCell(lap_ascent * 10)
              [] c = "CaloriesC" -> Str(calories)
              [] c = "Best Pacemin/km" -> MovingSame(pace_str)
              [] c = "Moving Time" -> MovingSame(time_str)
              [] c = "Avg Moving Pacemin/km" -> MovingSame(pace_str)
              [] OTHER -> <<>>]

\* the cells of a column that hold a number other than zero
PresentIntsNonZero(data, col) ==
    LET rows == SelectSeq(data, LAMBDA row : row[col] # <<>> /\ ParseInt(row[col]) # 0)
    IN  [k \in 1..Len(rows) |-> ParseInt(rows[k][col])]

\* the cells of a column that are not empty, through int()
PresentInts(data, col) ==
    LET rows == SelectSeq(data, LAMBDA row : row[col] # <<>>)
    IN  [k \in 1..Len(rows) |-> ParseInt(rows[k][col])]

\* the cells of a column that are not empty, through float(), in hundredths
PresentFloats(data, col) ==
    LET rows == SelectSeq(data, LAMBDA row : row[col] # <<>>)
    IN  [k \in 1..Len(rows) |-> ParseFloat2(rows[k][col])]

RECURSIVE SeqSum(_)
SeqSum(q) == IF q = <<>> THEN 0 ELSE Head(q) + SeqSum(Tail(q))

SeqMax(q) == CHOOSE m \in {q[k] : k \in 1..Len(q)} : \A k \in 1..Len(q) : q[k] <= m

\* the mean rounded to the nearest integer
RoundedMean(values) == (2 * SeqSum(values) + Len(values)) \div (2 * Len(values))

\* int(sum(hr_values) / len(hr_values)): the mean, truncated
TruncatedMean(values) == SeqSum(values) \div Len(values)

\* the distance of the last lap is left out of the sum
TotalDistanceButLast(data) ==
    SeqSum(PresentFloats(SubSeq(data, 1, Len(data) - 1), "Distancekm"))

\* sum(float(row['Distancekm']) for row in data): the sum of the values
\* printed in the lap rows, in 1/100 km
TotalDistance(data) == SeqSum(PresentFloats(data, "Distancekm"))

\* the summary row, from the lap rows and the time accumulator
SummaryData(data, cumulative_time) ==
    LET total_distance == TotalDistance(data)   \* 1/100 km
        total_calories == SeqSum(PresentInts(data, "CaloriesC"))
        total_ascent == SeqSum(PresentFloats(data, "Total Ascentm"))  \* 1/100 m
        total_time_seconds == cumulative_time
        avg_pace_seconds == PaceSeconds(total_time_seconds, total_distance, 100)
        avg_pace_str == format_seconds_to_pace(avg_pace_seconds[1], avg_pace_seconds[2])
        hr_values == PresentInts(data, "Avg HRbpm")
        avg_hr == IF hr_values # <<>>
                  THEN Str(TruncatedMean(hr_values)) ELSE <<>>
        max_values == PresentInts(data, "Max HRbpm")
        max_hr == IF max_values # <<>> THEN Str(SeqMax(max_values)) ELSE <<>>
    IN  [c \in ColumnSet |->
            CASE c = "Laps" -> SummaryLabel
              [] c = "Time" -> format_seconds_to_time(total_time_seconds)
              [] c = "Cumulative Time" -> format_seconds_to_time(total_time_seconds)
              [] c = "Distancekm" -> Fmt2(total_distance)
              [] c = "Avg Pacemin/km" -> avg_pace_str
              [] c = "Avg GAPmin/km" -> avg_pace_str
              [] c = "Avg HRbpm" -> avg_hr
              [] c = "Max HRbpm" -> max_hr
              [] c = "Total Ascentm" ->
                     AscentCell(total_ascent)
              [] c = "CaloriesC" -> Str(total_calories)
              [] c = "Moving Time" -> MovingSame(format_seconds_to_time(total_time_seconds))
              [] c = "Avg Moving Pacemin/km" -> MovingSame(avg_pace_str)
              [] OTHER -> <<>>]

\* the summary row is not appended
WithoutSummary(data, summary_data) == data

\* the summary row is put first
SummaryFirst(data, summary_data) == <<summary_data>> \o data

\* data.append(summary_data)
WithSummary(data, summary_data) == Append(data, summary_data)

\* pd.DataFrame(data).to_csv(path, index=False, quoting=1): the header of the
\* dict keys, then one line per row
ToCsv(data) == [header |-> Columns, rows |-> data]

\* root.find: the first lap only
FindFirstLap(doc) == IF doc.ns /\ doc.laps # <<>> THEN <<doc.laps[1]>> ELSE <<>>

\* root.findall('.//tcx:Lap', ns): only elements of the schema namespace
FindLaps(doc) == IF doc.ns THEN doc.laps ELSE <<>>

(***************************************************************************)
(* The recordings and directories the exploration draws from.              *)
(***************************************************************************)
LapFull ==
    [TotalTimeSeconds |-> <<30000>>, DistanceMeters |-> <<1000>>,
     Calories |-> <<80>>, AverageHeartRateBpm |-> <<150>>,
     MaximumHeartRateBpm |-> <<160>>,
     trackpoints |-> << <<1000>>, <<1050>>, <<1020>>, <<1100>> >>]

LapNoHR ==
    [TotalTimeSeconds |-> <<24530>>, DistanceMeters |-> <<804>>,
     Calories |-> <<61>>, AverageHeartRateBpm |-> <<>>,
     MaximumHeartRateBpm |-> <<>>,
     trackpoints |-> << <<>>, <<1110>>, <<>>, <<1130>> >>]

LapOld ==
    [TotalTimeSeconds |-> <<6150>>, DistanceMeters |-> <<200>>,
     Calories |-> <<12>>, AverageHeartRateBpm |-> <<120>>,
     MaximumHeartRateBpm |-> <<125>>, trackpoints |-> <<>>]

LapNoCalories == [LapFull EXCEPT !.Calories = <<>>]
LapNoTime == [LapNoHR EXCEPT !.TotalTimeSeconds = <<>>]

Doc(readable, wellformed, ns, laps) ==
    [readable |-> readable, wellformed |-> wellformed, ns |-> ns, laps |-> laps]

DocOneLap == Doc(TRUE, TRUE, TRUE, <<LapFull>>)
DocTwoLaps == Doc(TRUE, TRUE, TRUE, <<LapFull, LapNoHR>>)
DocMalformed == Doc(TRUE, FALSE, TRUE, <<>>)
DocUnreadable == Doc(FALSE, TRUE, TRUE, <<LapFull>>)
DocNoLaps == Doc(TRUE, TRUE, TRUE, <<>>)
DocWrongNamespace == Doc(TRUE, TRUE, FALSE, <<LapFull>>)
DocMissingLater == Doc(TRUE, TRUE, TRUE, <<LapFull, LapNoCalories>>)
DocMissingFirst == Doc(TRUE, TRUE, TRUE, <<LapNoTime, LapFull>>)

Docs == {DocOneLap, DocTwoLaps, DocMalformed, DocUnreadable, DocNoLaps,
         DocWrongNamespace, DocMissingLater, DocMissingFirst}

\* a conversion of the document runs to the end
Convertible(doc) ==
    /\ doc.readable /\ doc.wellformed
    /\ FindLaps(doc) # <<>>
    /\ \A k \in 1..Len(doc.laps) : ~MissingRequired(doc.laps[k])

NameA == <<97, 46, 116, 99, 120>>                        \* "a.tcx"
NameUpper == <<66, 46, 84, 67, 88>>                      \* "B.TCX"
NameDouble == <<99, 46, 116, 99, 120, 46, 116, 99, 120>> \* "c.tcx.tcx"
NameText == <<110, 46, 116, 120, 116>>                   \* "n.txt"
NameACsv == <<97, 46, 99, 115, 118>>                     \* "a.csv"
NameUpperCsv == <<66, 46, 99, 115, 118>>                 \* "B.csv"
NameProg == <<116>>                                      \* argv[0]

RecordingNames == {NameA, NameUpper, NameDouble}
OutputNames == {NameACsv, NameUpper}

\* an output file left by an earlier conversion of an older recording
OldCsv ==
    LET row == LapData(1, LapOld, LapOld.TotalTimeSeconds[1])
    IN  ToCsv(WithSummary(<<row>>, SummaryData(<<row>>, LapOld.TotalTimeSeconds[1])))

Listings ==
    {[exists |-> FALSE, files |-> [n \in {} |-> DocOneLap]]} \cup
    UNION {UNION {{[exists |-> TRUE,
                    files |-> [n \in R \cup T |-> IF n \in R THEN f[n] ELSE DocOneLap]] :
                        f \in [R -> Docs]} :
                     R \in {X \in SUBSET RecordingNames :
                               Cardinality(X) + Cardinality(T) <= MaxFiles}} :
              T \in SUBSET {NameText}}

\* the output directory before the first run
Outputs == {[n \in P |-> OldCsv] : P \in SUBSET OutputNames}

Invocations ==
    { <<NameProg>>,
      <<NameProg, BatchFlag>>,
      <<NameProg, NameA>>,
      <<NameProg, NameA, NameACsv, NameText>>,
      <<NameProg, NameA, NameACsv>>,
      <<NameProg, NameText, NameUpperCsv>> }

(***************************************************************************)
(* State.                                                                  *)
(***************************************************************************)
VARIABLES
    argv,             \* sys.argv
    tcxDir,           \* the input directory: whether it exists, its files
    csvDir,           \* the output directory: file name -> file content
    pc,               \* where the process is
    caller,           \* who called parse_tcx_to_csv: "main" or "batch"
    tcx_files,        \* batch: sorted(tcx_files)
    idx,              \* batch: position of the for loop in tcx_files
    converted_count,
    skipped_count,
    tcx_path,         \* parse_tcx_to_csv: arguments and locals
    csv_path,
    laps,
    i,
    data,
    cumulative_time,
    printed,          \* what the process has printed
    exitCode,         \* exit status once the process has ended, else -1
    run,              \* number of the invocation
    runs,             \* add_run.py: the rows appended to data/runs.csv
    addArg,           \* add_run.py: sys.argv[1] of its last invocation
    addExit,          \* add_run.py: exit status of its last invocation, else -1
    failed,           \* history: the recordings whose latest conversion, in this
                      \* or an earlier run, ended without writing an output
    today,            \* garmin_pull.py: datetime.now(), as a day number
    last_download,    \* garmin_pull.py: last_download.txt, <<>> or <<day>>
    raw,              \* garmin_pull.py: raw_tcx, file name -> TCX content
    pullResult,       \* garmin_pull.py: how the last download_tcx_files ended
    lastOutcome,      \* garmin_pull.py: activity id -> what its download did
                      \* in the last run
    errored           \* history: the activities whose download raised an error
                      \* in some run and that have not been stored since

vars == <<argv, tcxDir, csvDir, pc, caller, tcx_files, idx, converted_count,
          skipped_count, tcx_path, csv_path, laps, i, data, cumulative_time,
          printed, exitCode, run, runs, addArg, addExit, failed, today,
          last_download, raw, pullResult, lastOutcome, errored>>

addVars == <<runs, addArg, addExit>>

pullVars == <<today, last_download, raw, pullResult, lastOutcome, errored>>

batchVars == <<tcx_files, idx, converted_count, skipped_count>>
parseVars == <<tcx_path, csv_path, laps, i, data, cumulative_time>>

Msg(m, a) == [msg |-> m, arg |-> a]

\* the state of a process that has just been started
Fresh ==
    /\ failed = {}
    /\ pc = "main"
    /\ caller = "main"
    /\ tcx_files = <<>>
    /\ idx = 1
    /\ converted_count = 0
    /\ skipped_count = 0
    /\ tcx_path = <<>>
    /\ csv_path = <<>>
    /\ laps = <<>>
    /\ i = 1
    /\ data = <<>>
    /\ cumulative_time = 0
    /\ printed = <<>>
    /\ exitCode = -1

\* add_run.py has not been run
NoRunAdded ==
    /\ runs = <<>>
    /\ addArg = <<>>
    /\ addExit = -1

\* garmin_pull.py has not been run: no tracking file, raw_tcx empty
NoPull ==
    /\ last_download = <<>>
    /\ raw = [n \in {} |-> <<>>]
    /\ pullResult = "none"
    /\ lastOutcome = [a \in {} |-> "ok"]
    /\ errored = {}

Init ==
    /\ argv \in Invocations
    /\ tcxDir \in Listings
    /\ csvDir \in Outputs
    /\ run = 1
    /\ Fresh
    /\ NoRunAdded
    /\ NoPull
    /\ today = 1

(***************************************************************************)
(* main                                                                    *)
(***************************************************************************)
Usage == <<Msg("Usage", <<>>)>>

\* a dispatch that knows no default: only --batch starts the batch
DispatchFlagOnly(args) ==
    IF Len(args) = 2 /\ args[2] = BatchFlag THEN "batch"
    ELSE IF Len(args) = 3 THEN "single"
    ELSE "usage"

\* a dispatch that ignores arguments after the second path
DispatchLenient(args) ==
    IF Len(args) = 1 THEN "default"
    ELSE IF Len(args) = 2
    THEN IF args[2] = BatchFlag THEN "batch" ELSE "usage"
    ELSE "single"

\* the branch main takes, by len(sys.argv) and sys.argv[1]
Dispatch(args) ==
    IF Len(args) = 1 THEN "default"
    ELSE IF Len(args) = 2
    THEN IF args[2] = BatchFlag THEN "batch" ELSE "usage"
    ELSE IF Len(args) = 3 THEN "single"
    ELSE "usage"

Main ==
    /\ pc = "main"
    /\ LET branch == Dispatch(argv)
       IN  IF branch = "default"
           THEN /\ printed' = Append(printed, Msg("No arguments provided", <<>>))
                /\ pc' = "batch"
                /\ UNCHANGED <<exitCode, tcx_path, csv_path>>
           ELSE IF branch = "batch"
           THEN /\ pc' = "batch"
                /\ UNCHANGED <<printed, exitCode, tcx_path, csv_path>>
           ELSE IF branch = "single"
           THEN LET tcx_file == argv[2]
                    csv_file == argv[3]
                IN  IF ~(tcxDir.exists /\ tcx_file \in DOMAIN tcxDir.files)
                    THEN /\ printed' = Append(printed, Msg("Error: Input file not found", tcx_file))
                         /\ exitCode' = 1
                         /\ pc' = "exit"
                         /\ UNCHANGED <<tcx_path, csv_path>>
                    ELSE /\ printed' =
                                IF ~EndsWith(Lower(tcx_file), TcxExt)
                                THEN Append(printed, Msg("Warning: no .tcx extension", <<>>))
                                ELSE printed
                         /\ tcx_path' = tcx_file
                         /\ csv_path' = csv_file
                         /\ pc' = "parse"
                         /\ UNCHANGED exitCode
           ELSE /\ printed' = printed \o Usage
                /\ exitCode' = 1
                /\ pc' = "exit"
                /\ UNCHANGED <<tcx_path, csv_path>>
    /\ caller' = "main"
    /\ UNCHANGED <<failed, addVars, pullVars, argv, tcxDir, csvDir, batchVars, laps, i, data,
                   cumulative_time, run>>

(***************************************************************************)
(* batch_convert_tcx_files                                                 *)
(***************************************************************************)
\* f.lower().endswith('.tcx')
IsRecording(f) == EndsWith(Lower(f), TcxExt)

\* tcx_file.replace('.tcx', '.csv')
CsvFilename(tcx_file) == Replace(tcx_file, TcxExt, CsvExt)

\* no check for an existing output
ExistsNever(dir, name) == FALSE

\* os.path.exists(csv_path)
Exists(dir, name) == name \in DOMAIN dir

\* the files in descending order
DescendingOrder(files) ==
    LET q == Sorted(files) IN [k \in 1..Len(q) |-> q[Len(q) + 1 - k]]

\* the order in which the for loop takes the files
LoopOrder(files) == Sorted(files)

BatchStart ==
    /\ pc = "batch"
    /\ IF ~tcxDir.exists
       THEN /\ printed' = Append(printed, Msg("TCX directory not found", <<>>))
            /\ pc' = "exit"
            /\ exitCode' = 0
            /\ UNCHANGED tcx_files
       ELSE LET found == {f \in DOMAIN tcxDir.files : IsRecording(f)}
            IN  IF found = {}
                THEN /\ printed' = Append(printed, Msg("No TCX files found", <<>>))
                     /\ pc' = "exit"
                     /\ exitCode' = 0
                     /\ UNCHANGED tcx_files
                ELSE /\ printed' = Append(printed, Msg("Found", <<Cardinality(found)>>))
                     /\ tcx_files' = LoopOrder(found)
                     /\ pc' = "loop"
                     /\ UNCHANGED exitCode
    /\ idx' = 1
    /\ converted_count' = 0
    /\ skipped_count' = 0
    /\ UNCHANGED <<failed, addVars, pullVars, argv, tcxDir, csvDir, caller, parseVars, run>>

\* one pass through the head of the for loop, or the lines after the loop
BatchLoop ==
    /\ pc = "loop"
    /\ IF idx <= Len(tcx_files)
       THEN LET tcx_file == tcx_files[idx]
                csv_filename == CsvFilename(tcx_file)
            IN  IF Exists(csvDir, csv_filename)
                THEN /\ printed' = Append(printed, Msg("Skipping", tcx_file))
                     /\ skipped_count' = skipped_count + 1
                     /\ idx' = idx + 1
                     /\ UNCHANGED <<pc, caller, tcx_path, csv_path, exitCode>>
                ELSE /\ printed' = Append(printed, Msg("Converting", tcx_file))
                     /\ tcx_path' = tcx_file
                     /\ csv_path' = csv_filename
                     /\ caller' = "batch"
                     /\ pc' = "parse"
                     /\ UNCHANGED <<skipped_count, idx, exitCode>>
       ELSE /\ printed' = printed \o
                    << Msg("Batch conversion complete!", <<>>),
                       Msg("Converted", <<converted_count>>),
                       Msg("Skipped", <<skipped_count>>),
                       Msg("Total processed", <<Len(tcx_files)>>) >>
            /\ pc' = "exit"
            /\ exitCode' = 0
            /\ UNCHANGED <<skipped_count, idx, caller, tcx_path, csv_path>>
    /\ UNCHANGED <<failed, addVars, pullVars, argv, tcxDir, csvDir, tcx_files, converted_count, laps, i,
                   data, cumulative_time, run>>

(***************************************************************************)
(* parse_tcx_to_csv                                                        *)
(***************************************************************************)
\* an except clause that ends the process (sys.exit) after printing
ExceptOutcomeExit(exc) == "exit"

\* what an except clause of parse_tcx_to_csv does after printing: "return"
\* (fall off the end of the function), "raise" or "exit"
ExceptOutcome(exc) == "return"

\* the print of the except clause that catches exc; {e} is shown as its class
ExceptMessage(exc) ==
    IF exc = "ParseError" THEN Msg("Error parsing XML: " \o exc, <<>>)
    ELSE Msg("Error converting TCX to CSV: " \o exc, <<>>)

\* parse_tcx_to_csv ends after printing msgs: control goes back to the caller
ParseEnds(msgs, outcome) ==
    IF caller = "batch"
    THEN IF outcome = "return"
         THEN /\ printed' = printed \o msgs
              /\ converted_count' = converted_count + 1
              /\ idx' = idx + 1
              /\ pc' = "loop"
              /\ UNCHANGED exitCode
         ELSE IF outcome = "raise"
         THEN /\ printed' = printed \o msgs \o <<Msg("Error converting", tcx_path)>>
              /\ idx' = idx + 1
              /\ pc' = "loop"
              /\ UNCHANGED <<converted_count, exitCode>>
         ELSE /\ printed' = printed \o msgs
              /\ pc' = "exit"
              /\ exitCode' = 1
              /\ UNCHANGED <<converted_count, idx>>
    ELSE /\ printed' = printed \o msgs
         /\ pc' = "exit"
         /\ exitCode' = IF outcome = "return" THEN 0 ELSE 1
         /\ UNCHANGED <<converted_count, idx>>

ParseFails(exc) == ParseEnds(<<ExceptMessage(exc)>>, ExceptOutcome(exc))

\* the accumulator keeps the value the previous conversion left
KeepCumulativeTime(leftover) == leftover

\* cumulative_time = 0: a local of the call, whatever an earlier call left
StartCumulativeTime(leftover) == 0

\* ET.parse, findall and the check for no laps
ParseOpen ==
    /\ pc = "parse"
    /\ LET doc == tcxDir.files[tcx_path]
       IN  IF ~doc.readable
           THEN ParseFails("OSError") /\ UNCHANGED <<laps, i, data, cumulative_time>>
           ELSE IF ~doc.wellformed
           THEN ParseFails("ParseError") /\ UNCHANGED <<laps, i, data, cumulative_time>>
           ELSE IF FindLaps(doc) = <<>>
           THEN /\ ParseEnds(<<Msg("No laps found in the TCX file", <<>>)>>, "return")
                /\ laps' = <<>>
                /\ UNCHANGED <<i, data, cumulative_time>>
           ELSE /\ laps' = FindLaps(doc)
                /\ data' = <<>>
                /\ cumulative_time' = StartCumulativeTime(cumulative_time)
                /\ i' = 1
                /\ pc' = "lap"
                /\ UNCHANGED <<printed, converted_count, idx, exitCode>>
    /\ failed' = IF pc' \in {"lap", "write"} THEN failed ELSE failed \cup {tcx_path}
    /\ UNCHANGED <<addVars, pullVars, argv, tcxDir, csvDir, caller, tcx_files, skipped_count,
                   tcx_path, csv_path, run>>

\* cumulative_time = total_time
AccumulateReplace(elapsed, total_time) == total_time

\* cumulative_time += total_time
Accumulate(elapsed, total_time) == elapsed + total_time

\* one iteration of "for i, lap in enumerate(laps, 1)"
ParseLap ==
    /\ pc = "lap"
    /\ i <= Len(laps)
    /\ LET lap == laps[i]
       IN  IF MissingRequired(lap)
           THEN ParseFails("AttributeError") /\ UNCHANGED <<i, data, cumulative_time>>
           ELSE /\ cumulative_time' = Accumulate(cumulative_time, lap.TotalTimeSeconds[1])
                /\ data' = Append(data, LapData(i, lap, cumulative_time'))
                /\ i' = i + 1
                /\ pc' = IF i = Len(laps) THEN "write" ELSE "lap"
                /\ UNCHANGED <<printed, converted_count, idx, exitCode>>
    /\ failed' = IF pc' \in {"lap", "write"} THEN failed ELSE failed \cup {tcx_path}
    /\ UNCHANGED <<addVars, pullVars, argv, tcxDir, csvDir, caller, tcx_files, skipped_count,
                   tcx_path, csv_path, laps, run>>

\* the summary row, to_csv and the two closing prints
ParseWrite ==
    /\ pc = "write"
    /\ LET summary_data == SummaryData(data, cumulative_time)
       IN  /\ data' = WithSummary(data, summary_data)
           /\ csvDir' = [n \in DOMAIN csvDir \cup {csv_path} |->
                            IF n = csv_path THEN ToCsv(data') ELSE csvDir[n]]
           /\ ParseEnds(<< Msg("Successfully converted", tcx_path),
                           Msg("Processed laps", <<Len(data') - 1>>) >>, "return")
    /\ failed' = failed \ {tcx_path}
    /\ UNCHANGED <<addVars, pullVars, argv, tcxDir, caller, tcx_files, skipped_count, tcx_path,
                   csv_path, laps, i, cumulative_time, run>>

(***************************************************************************)
(* The user runs the program again, with the same arguments, on the        *)
(* directories as the last run left them.                                  *)
(***************************************************************************)
Rerun ==
    /\ pc = "exit"
    /\ run < MaxRuns
    /\ run' = run + 1
    /\ pc' = "main"
    /\ caller' = "main"
    /\ tcx_files' = <<>>
    /\ idx' = 1
    /\ converted_count' = 0
    /\ skipped_count' = 0
    /\ tcx_path' = <<>>
    /\ csv_path' = <<>>
    /\ laps' = <<>>
    /\ i' = 1
    /\ data' = <<>>
    /\ cumulative_time' = 0
    /\ printed' = <<>>
    /\ exitCode' = -1
    /\ UNCHANGED <<failed, addVars, pullVars, argv, tcxDir, csvDir>>

Next ==
    \/ Main
    \/ BatchStart
    \/ BatchLoop
    \/ ParseOpen
    \/ ParseLap
    \/ ParseWrite
    \/ Rerun

Spec == Init /\ [][Next]_vars

(***************************************************************************)
(* add_run.py: the user appends the run of one converted CSV to            *)
(* data/runs.csv.  A value read by pandas is <<>> for an empty cell (NaN)  *)
(* and <<v>> otherwise: numbers for the numeric columns (distance and      *)
(* ascent in hundredths), the cell text for the time and pace columns.     *)
(***************************************************************************)
MaxAdded == 1      \* rows appended to data/runs.csv

RequiredCols ==
    <<"Distancekm", "Cumulative Time", "Avg Pacemin/km", "Avg HRbpm", "Total Ascentm">>

RunTypes == <<"Easy run", "Tempo run", "Interval run", "Long run">>

IsDigit(c) == c >= 48 /\ c <= 57

RECURSIVE CodesToInt(_)
CodesToInt(q) ==
    IF q = <<>> THEN 0
    ELSE CodesToInt(SubSeq(q, 1, Len(q) - 1)) * 10 + (q[Len(q)] - 48)

DaysInMonth(year, month) ==
    IF month = 2
    THEN IF year % 4 = 0 /\ (year % 100 # 0 \/ year % 400 = 0) THEN 29 ELSE 28
    ELSE IF month \in {4, 6, 9, 11} THEN 30 ELSE 31

\* datetime.strptime(date, "%Y-%m-%d") does not raise
ValidDate(date) ==
    \E d \in 6..Len(date) :
        /\ Len(date) >= 8
        /\ date[5] = 45
        /\ date[d] = 45
        /\ d \in {7, 8}
        /\ Len(date) - d \in {1, 2}
        /\ \A k \in (1..Len(date)) \ {5, d} : IsDigit(date[k])
        /\ LET year == CodesToInt(SubSeq(date, 1, 4))
               month == CodesToInt(SubSeq(date, 6, d - 1))
               day == CodesToInt(SubSeq(date, d + 1, Len(date)))
           IN  /\ year >= 1
               /\ month \in 1..12
               /\ day >= 1 /\ day <= DaysInMonth(year, month)

\* pd.read_csv of a cell of a numeric column with two decimals
ReadFloat2(cell) == IF cell = <<>> THEN <<>> ELSE <<ParseFloat2(cell)>>
\* ... of an integer column
ReadInt(cell) == IF cell = <<>> THEN <<>> ELSE <<ParseInt(cell)>>
\* ... of a text column
ReadText(cell) == IF cell = <<>> THEN <<>> ELSE <<cell>>

\* df.iloc[0]
FirstRowOf(df) == df.rows[1]

\* df.iloc[-1]
SummaryRowOf(df) == df.rows[Len(df.rows)]

RunRow(date, summary_row, rating_int, run_type, notes) ==
    [date |-> date,
     distance |-> ReadFloat2(summary_row["Distancekm"]),
     time |-> ReadText(summary_row["Cumulative Time"]),
     avg_pace |-> ReadText(summary_row["Avg Pacemin/km"]),
     avg_hr |-> ReadInt(summary_row["Avg HRbpm"]),
     total_ascent |-> ReadFloat2(summary_row["Total Ascentm"]),
     rating |-> rating_int,
     type |-> run_type,
     notes |-> notes]

NameDated == <<50, 48, 50, 52, 45, 48, 49, 45, 48, 53, 46, 99, 115, 118>>  \* "2024-01-05.csv"
NameDatedOther == <<50, 48, 50, 52, 45, 48, 50, 45, 51, 48, 46, 99, 115, 118>>  \* "2024-02-30.csv"
NameForeign == <<50, 48, 50, 52, 45, 49, 45, 54, 46, 99, 115, 118>>  \* "2024-1-6.csv"

AddRunArguments == {NameDated, NameDatedOther, NameForeign, NameACsv}

\* the whole script; the answers to its prompts are the valid ones that end
\* the two input loops
AddRun ==
    /\ pc = "exit"
    /\ Len(runs) < MaxAdded
    /\ \E run_file \in AddRunArguments, run_int \in 1..4, rating_int \in {1, 10},
          notes \in {"", "windy"} :
          /\ addArg' = run_file
          /\ IF ~(run_file \in DOMAIN csvDir /\ EndsWith(run_file, CsvExt))
             THEN addExit' = 1 /\ UNCHANGED runs
             ELSE LET date == Replace(run_file, CsvExt, <<>>)
                      df == csvDir[run_file]
                  IN  IF ~ValidDate(date)
                      THEN addExit' = 1 /\ UNCHANGED runs
                      ELSE IF df.rows = <<>>
                      THEN addExit' = 1 /\ UNCHANGED runs
                      ELSE LET summary_row == SummaryRowOf(df)
                           IN  IF \E k \in 1..Len(RequiredCols) :
                                     RequiredCols[k] \notin DOMAIN summary_row
                               THEN addExit' = 1 /\ UNCHANGED runs
                               ELSE /\ runs' = Append(runs,
                                          RunRow(date, summary_row, rating_int,
                                                 RunTypes[run_int], notes))
                                    /\ addExit' = 0
    /\ UNCHANGED <<argv, tcxDir, csvDir, pc, caller, batchVars, parseVars,
                   printed, exitCode, run, failed, pullVars>>

LapFlat ==
    [TotalTimeSeconds |-> <<36000>>, DistanceMeters |-> <<1250>>,
     Calories |-> <<95>>, AverageHeartRateBpm |-> <<>>,
     MaximumHeartRateBpm |-> <<>>,
     trackpoints |-> << <<1000>>, <<>>, <<1000>>, <<990>> >>]

LapStill ==
    [TotalTimeSeconds |-> <<6000>>, DistanceMeters |-> <<0>>,
     Calories |-> <<3>>, AverageHeartRateBpm |-> <<90>>,
     MaximumHeartRateBpm |-> <<95>>, trackpoints |-> << <<1000>>, <<1010>> >>]

DocFlat == Doc(TRUE, TRUE, TRUE, <<LapFlat>>)
DocStill == Doc(TRUE, TRUE, TRUE, <<LapStill>>)

\* a CSV of another origin, without the ascent column
ForeignCsv ==
    LET cols == SelectSeq(Columns, LAMBDA c : c # "Total Ascentm")
    IN  [header |-> cols,
         rows |-> [k \in 1..Len(OldCsv.rows) |->
                      [c \in ColumnSet \ {"Total Ascentm"} |-> OldCsv.rows[k][c]]]]

\* a CSV with the header line only
HeaderOnlyCsv == [header |-> Columns, rows |-> <<>>]

InitAdd ==
    /\ argv \in {<<NameProg, NameA, NameDated>>, <<NameProg, NameA, NameACsv>>,
                 <<NameProg, NameA, NameDatedOther>>}
    /\ tcxDir \in {[exists |-> TRUE, files |-> [n \in {NameA} |-> d]] :
                      d \in {DocOneLap, DocTwoLaps, DocFlat, DocStill, DocMalformed}}
    /\ csvDir \in {[n \in {} |-> OldCsv],
                   [n \in {NameForeign} |-> ForeignCsv],
                   [n \in {NameForeign} |-> HeaderOnlyCsv]}
    /\ run = 1
    /\ Fresh
    /\ NoRunAdded
    /\ NoPull
    /\ today = 1

NextAdd ==
    \/ Main
    \/ ParseOpen
    \/ ParseLap
    \/ ParseWrite
    \/ AddRun

SpecAdd == InitAdd /\ [][NextAdd]_vars

(***************************************************************************)
(* One recording converted in single-file mode, the recording drawn from   *)
(* two families: one lap with every pattern of altitude samples, and up to *)
(* MaxLaps laps with every combination of time, distance and heart rate.   *)
(***************************************************************************)
MaxLaps == 2       \* laps of a recording
MaxTrack == 3      \* trackpoints of a lap

Altitudes == {<<>>, <<990>>, <<1000>>, <<1050>>}

RECURSIVE SeqsUpTo(_, _)
SeqsUpTo(S, n) ==
    IF n = 0 THEN {<<>>}
    ELSE LET shorter == SeqsUpTo(S, n - 1)
         IN  shorter \cup {Append(q, x) : q \in shorter, x \in S}

TrackLaps == {[LapFull EXCEPT !.trackpoints = t] : t \in SeqsUpTo(Altitudes, MaxTrack)}

HeartRates == {<< <<>>, <<>> >>, << <<0>>, <<0>> >>, << <<150>>, <<160>> >>,
               << <<>>, <<170>> >>, << <<155>>, <<165>> >>}

\* laps that differ in time and distance; the printed distances 0.00, 0.75
\* and 1.00 and their sums are exact in binary floating point, so that
\* the quotients of the program are those of exact arithmetic
PaceLaps ==
    {[TotalTimeSeconds |-> <<t>>, DistanceMeters |-> <<d>>, Calories |-> <<80>>,
      AverageHeartRateBpm |-> <<150>>, MaximumHeartRateBpm |-> <<160>>,
      trackpoints |-> << <<1000>>, <<1010>> >>] :
        t \in {0, 5996, 30000}, d \in {0, 4, 754, 1000}}

\* laps that differ in heart rate
HeartLaps ==
    {[TotalTimeSeconds |-> <<30000>>, DistanceMeters |-> <<1000>>, Calories |-> <<80>>,
      AverageHeartRateBpm |-> hr[1], MaximumHeartRateBpm |-> hr[2],
      trackpoints |-> << <<1000>>, <<1010>> >>] : hr \in HeartRates}

\* laps that differ in calories and climb
ClimbLaps ==
    {[LapFull EXCEPT !.Calories = <<0>>, !.trackpoints = <<>>],
     [LapFull EXCEPT !.Calories = <<95>>, !.trackpoints = << <<1000>>, <<990>> >>],
     [LapFull EXCEPT !.Calories = <<95>>, !.trackpoints = << <<1000>>, <<>>, <<1050>> >>]}

FieldLaps == PaceLaps \cup HeartLaps \cup ClimbLaps

ConvDocs ==
    {Doc(TRUE, TRUE, TRUE, <<lap>>) : lap \in TrackLaps}
        \cup {Doc(TRUE, TRUE, TRUE, q) : q \in SeqsUpTo(FieldLaps, MaxLaps) \ {<<>>}}

InitConv ==
    /\ argv = <<NameProg, NameA, NameACsv>>
    /\ tcxDir \in {[exists |-> TRUE, files |-> [n \in {NameA} |-> d]] : d \in ConvDocs}
    /\ csvDir = [n \in {} |-> OldCsv]
    /\ run = 1
    /\ Fresh
    /\ NoRunAdded
    /\ NoPull
    /\ today = 1

NextConv ==
    \/ Main
    \/ ParseOpen
    \/ ParseLap
    \/ ParseWrite

SpecConv == InitConv /\ [][NextConv]_vars

(***************************************************************************)
(* Repeated batch runs over a directory whose recordings may fail, with    *)
(* names that contain the extension more than once.                        *)
(***************************************************************************)
NameCsvTcx == <<99, 46, 99, 115, 118, 46, 116, 99, 120>>    \* "c.csv.tcx"

RetryNames == {NameA, NameCsvTcx, NameDouble}
RetryDocs == {DocOneLap, DocMalformed, DocNoLaps, DocMissingLater}

RetryListings ==
    UNION {{[exists |-> TRUE, files |-> f] : f \in [R -> RetryDocs]} :
              R \in {X \in SUBSET RetryNames : X # {} /\ Cardinality(X) <= MaxFiles}}

InitRetry ==
    /\ argv \in {<<NameProg>>, <<NameProg, BatchFlag>>}
    /\ tcxDir \in RetryListings
    /\ csvDir \in {[n \in P |-> OldCsv] : P \in SUBSET {NameACsv}}
    /\ run = 1
    /\ Fresh
    /\ NoRunAdded
    /\ NoPull
    /\ today = 1

NextRetry ==
    \/ Main
    \/ BatchStart
    \/ BatchLoop
    \/ ParseOpen
    \/ ParseLap
    \/ ParseWrite
    \/ Rerun

SpecRetry == InitRetry /\ [][NextRetry]_vars

(***************************************************************************)
(* garmin_pull.py: download_tcx_files, run again and again as days pass.   *)
(* A day is a number; an activity is on the server from its day on.  The   *)
(* activity list gives startTimeLocal as date and clock time, the TCX      *)
(* gives the Activity Id as a timestamp with T and Z.                      *)
(***************************************************************************)
MaxDay == 4        \* days that pass

Activities ==
    {[activityId |-> 1, typeKey |-> "running", day |-> 1, clock |-> 7, hasId |-> TRUE],
     [activityId |-> 2, typeKey |-> "trail_running", day |-> 1, clock |-> 18, hasId |-> TRUE],
     [activityId |-> 3, typeKey |-> "cycling", day |-> 2, clock |-> 9, hasId |-> TRUE],
     [activityId |-> 4, typeKey |-> "treadmill_running", day |-> 2, clock |-> 9, hasId |-> FALSE]}

\* activity_type.lower() in ['running', 'trail_running', 'treadmill_running']
IsRunning(activity) ==
    activity.typeKey \in {"running", "trail_running", "treadmill_running"}

\* activity.get('startTimeLocal'): "YYYY-MM-DD HH:MM:SS"
StartTimeLocal(activity) == <<activity.day, " ", activity.clock>>

\* the text of Activity/Id in the TCX: "YYYY-MM-DDTHH:MM:SS.000Z"
IdText(activity) == <<activity.day, "T", activity.clock, "Z">>

\* the TCX the server gives for the activity
TcxContent(activity) ==
    [activityId |-> activity.activityId,
     id |-> IF activity.hasId THEN <<IdText(activity)>> ELSE <<>>]

\* the date of the Activity Id, None (<<>>) without one
get_activity_date_from_tcx(tcx_content) ==
    IF tcx_content.id # <<>> THEN <<tcx_content.id[1][1]>> ELSE <<>>

\* datetime.now() - timedelta(days=30) without a tracking file
get_last_download_date == IF last_download # <<>> THEN last_download[1] ELSE today - 30

\* the Activity Id texts of the files of raw_tcx
get_downloaded_activity_ids(dir) ==
    {dir[n].id[1] : n \in {m \in DOMAIN dir : dir[m].id # <<>>}}

\* client.get_activities_by_date(start, end)
ActivitiesByDate(start_date, end_date) ==
    {a \in Activities : start_date <= a.day /\ a.day <= end_date}

RECURSIVE Orderings(_)
Orderings(S) ==
    IF S = {} THEN {<<>>}
    ELSE UNION {{<<x>> \o q : q \in Orderings(S \ {x})} : x \in S}

DatedName(activity_date) == <<"date", activity_date>>        \* f"{activity_date}.tcx"
FallbackName(activity_id) == <<"activity", activity_id>>     \* f"activity_{activity_id}.tcx"

Save(dir, filename, tcx_content) ==
    [n \in DOMAIN dir \cup {filename} |-> IF n = filename THEN tcx_content ELSE dir[n]]

\* "for activity in activities": the directory after the loop
RECURSIVE DownloadEach(_, _, _, _)
DownloadEach(activities, outcome, downloaded_ids, dir) ==
    IF activities = <<>> THEN dir
    ELSE LET activity == Head(activities)
             rest == Tail(activities)
         IN  IF ~IsRunning(activity)
             THEN DownloadEach(rest, outcome, downloaded_ids, dir)
             ELSE IF StartTimeLocal(activity) \in downloaded_ids
             THEN DownloadEach(rest, outcome, downloaded_ids, dir)
             ELSE IF outcome[activity.activityId] # "ok"
             THEN DownloadEach(rest, outcome, downloaded_ids, dir)
             ELSE LET tcx_content == TcxContent(activity)
                      activity_date == get_activity_date_from_tcx(tcx_content)
                  IN  IF activity_date # <<>>
                      THEN IF DatedName(activity_date[1]) \in DOMAIN dir
                           THEN DownloadEach(rest, outcome, downloaded_ids, dir)
                           ELSE DownloadEach(rest, outcome, downloaded_ids,
                                    Save(dir, DatedName(activity_date[1]), tcx_content))
                      ELSE DownloadEach(rest, outcome, downloaded_ids,
                               Save(dir, FallbackName(activity.activityId), tcx_content))

\* what a download can do: give the TCX, raise an error, give a zip
\* without a TCX
Outcomes == {"ok", "error", "empty_zip"}

StoredIds(dir) == {dir[n].activityId : n \in DOMAIN dir}

\* one run of download_tcx_files
Pull ==
    /\ LET start_date == get_last_download_date - 1
           found == ActivitiesByDate(start_date, today)
           attempted == {a.activityId : a \in {b \in found : IsRunning(b)}}
       IN  \/ /\ pullResult' = "fetch_error"
              /\ UNCHANGED <<last_download, raw, lastOutcome, errored>>
           \/ /\ found = {}
              /\ pullResult' = "no_activities"
              /\ last_download' = <<today>>
              /\ lastOutcome' = [a \in {} |-> "ok"]
              /\ UNCHANGED <<raw, errored>>
           \/ /\ found # {}
              /\ \E activities \in Orderings(found), outcome \in [attempted -> Outcomes] :
                    /\ raw' = DownloadEach(activities, outcome,
                                  get_downloaded_activity_ids(raw), raw)
                    /\ lastOutcome' = outcome
                    /\ errored' = (errored \cup {a \in attempted : outcome[a] = "error"})
                                      \ StoredIds(raw')
              /\ pullResult' = "complete"
              /\ last_download' = <<today>>
    /\ UNCHANGED <<today, failed, addVars, argv, tcxDir, csvDir, pc, caller,
                   batchVars, parseVars, printed, exitCode, run>>

\* a day passes
Tick ==
    /\ today < MaxDay
    /\ today' = today + 1
    /\ UNCHANGED <<last_download, raw, pullResult, lastOutcome, errored, failed,
                   addVars, argv, tcxDir, csvDir, pc, caller, batchVars, parseVars,
                   printed, exitCode, run>>

InitPull ==
    /\ argv = <<NameProg>>
    /\ tcxDir = [exists |-> FALSE, files |-> [n \in {} |-> DocOneLap]]
    /\ csvDir = [n \in {} |-> OldCsv]
    /\ run = 1
    /\ Fresh
    /\ NoRunAdded
    /\ NoPull
    /\ today = 1

NextPull ==
    \/ Pull
    \/ Tick

SpecPull == InitPull /\ [][NextPull]_vars

(***************************************************************************)
(* Vocabulary of the properties.                                           *)
(***************************************************************************)
BatchMode == Len(argv) = 1 \/ (Len(argv) = 2 /\ argv[2] = BatchFlag)
SingleMode == Len(argv) = 3

InParse == pc \in {"parse", "lap", "write"}

Printed(m, a) == \E k \in 1..Len(printed) : printed[k] = Msg(m, a)
PrintedMsg(m) == \E k \in 1..Len(printed) : printed[k].msg = m
CountMsg(m) == Len(SelectSeq(printed, LAMBDA e : e.msg = m))

\* the files the for loop has taken so far, in the order it took them
Examined ==
    LET es == SelectSeq(printed, LAMBDA e : e.msg \in {"Skipping", "Converting"})
    IN  [k \in 1..Len(es) |-> es[k].arg]

\* the files of the input directory whose name ends in .tcx, in any case
Recordings ==
    {f \in DOMAIN tcxDir.files :
        Len(f) >= 4 /\ Lower(SubSeq(f, Len(f) - 3, Len(f))) = <<46, 116, 99, 120>>}

BatchFinished == BatchMode /\ pc = "exit" /\ Recordings # {}

\* C1: a file whose conversion fails does not abort the batch: at the end
\* of a batch run every recording of the directory has been examined, every
\* examined recording that had no output and converts cleanly has been
\* converted, and the final counts have been printed.
C1_FailureDoesNotAbortBatch ==
    BatchFinished =>
        /\ \A f \in Recordings : Printed("Skipping", f) \/ Printed("Converting", f)
        /\ \A f \in Recordings :
              (Printed("Converting", f) /\ Convertible(tcxDir.files[f]))
                  => Printed("Successfully converted", f)
        /\ PrintedMsg("Converted") /\ PrintedMsg("Skipped")
        /\ PrintedMsg("Total processed")
        /\ exitCode = 0

C1_Witness ==
    /\ BatchFinished
    /\ \E f, g \in Recordings :
          /\ LexLess(f, g)
          /\ Printed("Converting", f)
          /\ ~Convertible(tcxDir.files[f])
          /\ Printed("Successfully converted", g)

\* C2: at the end of a batch run the converted count is the number of files
\* whose conversion succeeded and wrote its CSV in this run.
C2_ConvertedCountsSuccesses ==
    BatchFinished =>
        /\ converted_count = CountMsg("Successfully converted")
        /\ Printed("Converted", <<CountMsg("Successfully converted")>>)

\* C3: in batch mode, when the output path derived for the file at the head
\* of the loop exists, the step skips the file: it does not enter the
\* parser, skipped_count grows by one, converted_count stays; and no step of
\* a batch run changes or removes an output file that exists.
C3_SkipLeavesOutput ==
    [][ BatchMode =>
          /\ (/\ pc = "loop"
              /\ idx <= Len(tcx_files)
              /\ CsvFilename(tcx_files[idx]) \in DOMAIN csvDir)
                 => /\ pc' = "loop"
                    /\ idx' = idx + 1
                    /\ skipped_count' = skipped_count + 1
                    /\ converted_count' = converted_count
                    /\ csvDir' = csvDir
                    /\ UNCHANGED parseVars
          /\ \A p \in DOMAIN csvDir :
                p \in DOMAIN csvDir' /\ csvDir'[p] = csvDir[p] ]_vars

C3_Witness ==
    /\ BatchFinished
    /\ skipped_count > 0
    /\ PrintedMsg("Successfully converted")
    /\ \E f \in Recordings :
          Printed("Skipping", f) /\ csvDir[CsvFilename(f)] = OldCsv

\* C4: a second batch run over the unchanged input directory changes no
\* output file and reports zero converted files.
C4_SecondRunConvertsNothing ==
    [][ (BatchMode /\ run = 2) =>
          /\ csvDir' = csvDir
          /\ (pc' = "exit" => converted_count' = 0) ]_vars

\* C5: whenever a step creates or changes an output file, the file then
\* holds the complete row set of the recording being converted: the header,
\* one row per lap numbered in order, and the summary row; so an attempt
\* that fails leaves the output directory as it was.
CompleteFor(content, doc) ==
    LET n == Len(doc.laps)
    IN  /\ doc.ns
        /\ n >= 1
        /\ content.header = Columns
        /\ Len(content.rows) = n + 1
        /\ \A k \in 1..n : content.rows[k]["Laps"] = Str(k)
        /\ content.rows[n + 1]["Laps"] = SummaryLabel

C5_CompleteOrNothing ==
    [][ \A p \in DOMAIN csvDir' :
          (p \notin DOMAIN csvDir \/ csvDir'[p] # csvDir[p])
              => /\ p = csv_path
                 /\ CompleteFor(csvDir'[p], tcxDir.files[tcx_path]) ]_vars

C5_Witness ==
    /\ pc \in {"loop", "exit"}
    /\ Len(data) >= 1
    /\ data[Len(data)]["Laps"] # SummaryLabel
    /\ printed[Len(printed)].msg = "Error converting TCX to CSV: AttributeError"
    /\ csv_path \notin DOMAIN csvDir
    /\ PrintedMsg("Successfully converted")

\* C6: in the two-path invocation, if the input path does not exist or the
\* XML does not parse, no output file is created or changed and the process
\* ends with a non-zero exit code.
C6_SingleFileFailureExitsNonZero ==
    [][ (/\ SingleMode
         /\ \/ ~tcxDir.exists
            \/ argv[2] \notin DOMAIN tcxDir.files
            \/ ~tcxDir.files[argv[2]].wellformed)
          => /\ csvDir' = csvDir
             /\ (pc' = "exit" => exitCode' # 0) ]_vars

\* C7: a readable, well-formed document in which the namespaced lookup finds
\* no lap ends in an outcome its caller can tell from a success (the batch
\* loop does not count it as converted, the two-path invocation does not
\* exit with 0), and no output file is written for it.
C7_NoLapsIsAFailure ==
    [][ (/\ pc = "parse"
         /\ tcxDir.files[tcx_path].readable
         /\ tcxDir.files[tcx_path].wellformed
         /\ \/ ~tcxDir.files[tcx_path].ns
            \/ tcxDir.files[tcx_path].laps = <<>>)
          => /\ csvDir' = csvDir
             /\ (caller = "batch" => converted_count' = converted_count)
             /\ (caller = "main" => exitCode' # 0) ]_vars

\* C8: while a document of the schema namespace in which some lap lacks
\* TotalTimeSeconds, DistanceMeters or Calories is being converted, no
\* output file is written, and the conversion ends by reporting the error
\* of reading the missing element (an AttributeError), wherever that lap is.
HasIncompleteLap(doc) ==
    /\ doc.readable /\ doc.wellformed /\ doc.ns
    /\ \E k \in 1..Len(doc.laps) :
          \/ doc.laps[k].TotalTimeSeconds = <<>>
          \/ doc.laps[k].DistanceMeters = <<>>
          \/ doc.laps[k].Calories = <<>>

C8_MissingRequiredFieldFails ==
    [][ (InParse /\ HasIncompleteLap(tcxDir.files[tcx_path]))
          => /\ csvDir' = csvDir
             /\ ~Printed("Successfully converted", tcx_path)'
             /\ (~InParse' =>
                    printed'[Len(printed')].msg =
                        "Error converting TCX to CSV: AttributeError") ]_vars

C8_Witness ==
    /\ ~InParse
    /\ tcx_path \in DOMAIN tcxDir.files
    /\ HasIncompleteLap(tcxDir.files[tcx_path])
    /\ ~ (tcxDir.files[tcx_path].laps[1].TotalTimeSeconds = <<>>)
    /\ Len(data) >= 1
    /\ printed # <<>>
    /\ printed[Len(printed)].msg = "Error converting TCX to CSV: AttributeError"
    /\ csv_path \notin DOMAIN csvDir

\* C9: for every file the batch converter takes, the output path is the
\* file name with only its trailing 4-character extension replaced by .csv.
C9_OutputNameSwapsTrailingExtension ==
    (caller = "batch" /\ InParse)
        => csv_path = SubSeq(tcx_path, 1, Len(tcx_path) - 4) \o <<46, 99, 115, 118>>

\* C10: the batch converter takes the recordings in strictly increasing
\* lexicographic order of name (so none twice, none before an earlier one),
\* and by the end of the run it has taken every recording.
C10_LexicographicOnce ==
    /\ \A j, k \in 1..Len(Examined) : j < k => LexLess(Examined[j], Examined[k])
    /\ BatchFinished => {Examined[k] : k \in 1..Len(Examined)} = Recordings

C10_Witness ==
    /\ BatchFinished
    /\ Len(Examined) >= 2
    /\ \E k \in 1..Len(Examined) : Examined[k] = <<66, 46, 84, 67, 88>>

(***************************************************************************)
(* The conversion and the batch as functions of their inputs alone.        *)
(***************************************************************************)
RECURSIVE RowsFrom(_, _, _)
RowsFrom(lapseq, k, elapsed) ==
    IF k > Len(lapseq) THEN <<>>
    ELSE LET upto == elapsed + lapseq[k].TotalTimeSeconds[1]
         IN  <<LapData(k, lapseq[k], upto)>> \o RowsFrom(lapseq, k + 1, upto)

RECURSIVE TimeUpTo(_, _)
TimeUpTo(lapseq, k) ==
    IF k = 0 THEN 0 ELSE TimeUpTo(lapseq, k - 1) + lapseq[k].TotalTimeSeconds[1]

\* the file a convertible document gives, from the document alone
Conversion(doc) ==
    LET rows == RowsFrom(doc.laps, 1, 0)
    IN  [header |-> Columns,
         rows |-> Append(rows, SummaryData(rows, TimeUpTo(doc.laps, Len(doc.laps))))]

RECURSIVE BatchFold(_, _, _, _, _)
BatchFold(listing, order, dir, converted, skipped) ==
    IF order = <<>>
    THEN [dir |-> dir, converted |-> converted, skipped |-> skipped]
    ELSE LET f == Head(order)
             out == CsvFilename(f)
         IN  IF out \in DOMAIN dir
             THEN BatchFold(listing, Tail(order), dir, converted, skipped + 1)
             ELSE IF Convertible(listing.files[f])
             THEN BatchFold(listing, Tail(order),
                     [n \in DOMAIN dir \cup {out} |->
                         IF n = out THEN Conversion(listing.files[f]) ELSE dir[n]],
                     converted + 1, skipped)
             ELSE BatchFold(listing, Tail(order), dir, converted + 1, skipped)

\* what a batch run over the default directories leaves and reports, from
\* the two directories alone: the output directory and the three counts
BatchOutcome(listing, dir) ==
    LET found == IF listing.exists
                 THEN {f \in DOMAIN listing.files : IsRecording(f)} ELSE {}
        end == BatchFold(listing, Sorted(found), dir, 0, 0)
    IN  IF found = {} THEN [dir |-> dir, report |-> <<>>]
        ELSE [dir |-> end.dir,
              report |-> <<end.converted, end.skipped, Cardinality(found)>>]

\* the counts the run has printed
Report ==
    LET es == SelectSeq(printed,
                  LAMBDA e : e.msg \in {"Converted", "Skipped", "Total processed"})
    IN  [k \in 1..Len(es) |-> es[k].arg[1]]

\* the output directory as it was when the run started: in a batch run the
\* files written are those of the recordings reported as converted
DirAtStart ==
    LET written == {CsvFilename(f) : f \in {g \in Recordings :
                                         Printed("Successfully converted", g)}}
    IN  [n \in DOMAIN csvDir \ written |-> csvDir[n]]

NoArguments == Len(argv) = 1
OnlyBatchFlag == Len(argv) = 2 /\ argv[2] = <<45, 45, 98, 97, 116, 99, 104>>

\* C11: the invocation without arguments and the invocation with --batch
\* perform the same batch conversion: when either has ended, the output
\* directory and the counts it reported are the same function of the two
\* directories the run started from, whichever of the two it was.
C11_NoArgumentsIsBatch ==
    ((NoArguments \/ OnlyBatchFlag) /\ pc = "exit")
        => /\ csvDir = BatchOutcome(tcxDir, DirAtStart).dir
           /\ Report = BatchOutcome(tcxDir, DirAtStart).report
           /\ exitCode = 0

C11_Witness ==
    /\ NoArguments
    /\ pc = "exit"
    /\ Len(Report) = 3
    /\ Report[1] >= 1
    /\ Report[2] >= 1
    /\ DOMAIN csvDir # DOMAIN DirAtStart

\* C12: an invocation with one argument other than --batch, or with three
\* or more arguments, never reads a recording or touches an output file, and
\* ends by printing the usage text and exiting with code 1.
UsageError == (Len(argv) = 2 /\ ~OnlyBatchFlag) \/ Len(argv) >= 4

C12_OtherInvocationsPrintUsage ==
    [][ UsageError =>
          /\ csvDir' = csvDir
          /\ pc' \in {"main", "exit"}
          /\ pc' = "exit" =>
                /\ exitCode' = 1
                /\ printed' = <<[msg |-> "Usage", arg |-> <<>>]>> ]_vars

C12_Witness ==
    /\ Len(argv) >= 4
    /\ pc = "exit"
    /\ exitCode = 1
    /\ argv[2] \in DOMAIN tcxDir.files


(***************************************************************************)
(* The run-database appender.                                              *)
(***************************************************************************)
\* a step of add_run.py: the converter has ended and stays ended
AddRunStep == pc = "exit" /\ pc' = "exit" /\ run' = run

HasAllRequired(df) ==
    \A k \in 1..Len(RequiredCols) :
        \E j \in 1..Len(df.header) : df.header[j] = RequiredCols[k]

EmptyRequired(df) ==
    /\ df.rows # <<>>
    /\ HasAllRequired(df)
    /\ \E k \in 1..Len(RequiredCols) : df.rows[Len(df.rows)][RequiredCols[k]] = <<>>

Appended == Len(runs') = Len(runs) + 1 /\ SubSeq(runs', 1, Len(runs)) = runs

\* the values of the appended run are those of the last row of the CSV
FromLastRow(df, run_row) ==
    LET last == df.rows[Len(df.rows)]
    IN  /\ run_row.distance = ReadFloat2(last["Distancekm"])
        /\ run_row.time = ReadText(last["Cumulative Time"])
        /\ run_row.avg_pace = ReadText(last["Avg Pacemin/km"])
        /\ run_row.avg_hr = ReadInt(last["Avg HRbpm"])
        /\ run_row.total_ascent = ReadFloat2(last["Total Ascentm"])

\* C14 (as amended): add_run.py takes its values from the last row of the
\* converted CSV only; it refuses to append (exit 1, data/runs.csv unchanged)
\* when the CSV lacks one of the columns Distancekm, Cumulative Time,
\* Avg Pacemin/km, Avg HRbpm, Total Ascentm, and otherwise appends the run of
\* an existing, date-named, non-empty CSV even when the last row has an empty
\* value in such a column, which it stores as an empty value.
C14_RefusesMissingColumnOnly ==
    [][ AddRunStep =>
          /\ (runs' = runs /\ addExit' = 1) \/ (Appended /\ addExit' = 0)
          /\ Appended =>
               /\ addArg' \in DOMAIN csvDir
               /\ HasAllRequired(csvDir[addArg'])
               /\ FromLastRow(csvDir[addArg'], runs'[Len(runs')])
          /\ (addArg' \in DOMAIN csvDir /\ ~HasAllRequired(csvDir[addArg']))
               => runs' = runs
          /\ (/\ addArg' \in DOMAIN csvDir
              /\ ValidDate(Replace(addArg', CsvExt, <<>>))
              /\ EmptyRequired(csvDir[addArg']))
               => Appended ]_vars

\* the run of a recording without heart rate and without climb was appended
C14_Witness ==
    /\ Len(runs) = 1
    /\ addExit = 0
    /\ addArg \in DOMAIN csvDir
    /\ EmptyRequired(csvDir[addArg])
    /\ runs[1].distance = <<125>>
    /\ runs[1].avg_hr = <<>>
    /\ runs[1].total_ascent = <<>>

\* C14 (as stated): the appender refuses to append when the last row has an
\* empty value in a required column
C14_RefusesEmptyValue ==
    [][ (AddRunStep /\ addArg' \in DOMAIN csvDir /\ EmptyRequired(csvDir[addArg']))
          => (runs' = runs /\ addExit' = 1) ]_vars


(***************************************************************************)
(* The rows of one converted recording.                                    *)
(***************************************************************************)
\* the recording of the single-file invocation and the file written for it
Source == tcxDir.files[argv[2]]
Converted == pc = "exit" /\ argv[3] \in DOMAIN csvDir
Output == csvDir[argv[3]].rows

LapLabels == << <<"1">>, <<"2">>, <<"3">>, <<"4">> >>

\* C13: a recording of n >= 1 laps that converts gives n+1 rows: rows 1..n
\* are labelled "1".."n" in source order, and the last row, and only the
\* last row, is labelled "Summary".
C13_LapRowsThenSummary ==
    Converted =>
        LET n == Len(Source.laps)
        IN  /\ n >= 1
            /\ Len(Output) = n + 1
            /\ \A k \in 1..n : Output[k]["Laps"] = LapLabels[k]
            /\ \A k \in 1..n :
                 Output[k]["CaloriesC"] = Str(Source.laps[k].Calories[1])
                 /\ Output[k]["Time"] = format_seconds_to_time(Source.laps[k].TotalTimeSeconds[1])
            /\ \A k \in 1..(n + 1) : Output[k]["Laps"] = SummaryLabel <=> k = n + 1

\* a recording of two laps was converted
C13_Witness == Converted /\ Len(Source.laps) = 2 /\ Len(Output) = 3


(***************************************************************************)
(* Heart rate, pace, ascent and cumulative time of the rows.               *)
(***************************************************************************)
\* the values of an optional field over the laps that have it
ValuesOf(lapseq, field) ==
    LET having == SelectSeq(lapseq, LAMBDA lap : lap[field] # <<>>)
    IN  [k \in 1..Len(having) |-> having[k][field][1]]

HeartRateCell(elem) ==
    IF elem = <<>> THEN <<>>
    ELSE IF elem = <<0>> THEN <<"0">>
    ELSE IF elem = <<150>> THEN <<"1", "5", "0">>
    ELSE IF elem = <<160>> THEN <<"1", "6", "0">>
    ELSE IF elem = <<170>> THEN <<"1", "7", "0">>
    ELSE Str(elem[1])

\* C15: the heart-rate cells of a lap are empty exactly when the element is
\* absent, a present 0 is written "0", and a lap with heart rate 0 counts in
\* the summary's average (the truncated mean of the present values) and
\* maximum.
C15_AbsentIsBlankZeroIsZero ==
    Converted =>
        LET n == Len(Source.laps)
            avgs == ValuesOf(Source.laps, "AverageHeartRateBpm")
            maxs == ValuesOf(Source.laps, "MaximumHeartRateBpm")
        IN  /\ \A k \in 1..n :
                 /\ Output[k]["Avg HRbpm"] = HeartRateCell(Source.laps[k].AverageHeartRateBpm)
                 /\ Output[k]["Max HRbpm"] = HeartRateCell(Source.laps[k].MaximumHeartRateBpm)
                 /\ Output[k]["Avg HRbpm"] = <<>> <=> Source.laps[k].AverageHeartRateBpm = <<>>
                 /\ Output[k]["Max HRbpm"] = <<>> <=> Source.laps[k].MaximumHeartRateBpm = <<>>
            /\ Output[n + 1]["Avg HRbpm"] =
                 IF avgs = <<>> THEN <<>> ELSE Str(SeqSum(avgs) \div Len(avgs))
            /\ Output[n + 1]["Max HRbpm"] =
                 IF maxs = <<>> THEN <<>> ELSE Str(SeqMax(maxs))

\* a lap with heart rate 0 and a lap with heart rate 150: the average is 75
C15_Witness ==
    /\ Converted
    /\ Len(Source.laps) = 2
    /\ Source.laps[1].AverageHeartRateBpm = <<0>>
    /\ Source.laps[2].AverageHeartRateBpm = <<150>>
    /\ Output[1]["Avg HRbpm"] = <<"0">>
    /\ Output[3]["Avg HRbpm"] = <<"7", "5">>
    /\ Output[3]["Max HRbpm"] = <<"1", "6", "0">>

\* C16: the pace of a lap is empty when its distance is 0, and "0:00" when
\* its distance is positive and its time is 0.
C16_PaceOfZeroTime ==
    Converted =>
        \A k \in 1..Len(Source.laps) :
            LET lap == Source.laps[k]
            IN  /\ lap.DistanceMeters = <<0>> => Output[k]["Avg Pacemin/km"] = <<>>
                /\ (lap.DistanceMeters[1] > 0 /\ lap.TotalTimeSeconds = <<0>>)
                     => Output[k]["Avg Pacemin/km"] = <<"0", ":", "0", "0">>

\* the altitudes of the trackpoints that have one
Samples(trackpoints) ==
    LET having == SelectSeq(trackpoints, LAMBDA a : a # <<>>)
    IN  [k \in 1..Len(having) |-> having[k][1]]

\* the sum of the positive differences between consecutive samples
Climb(samples) ==
    SeqSum([k \in 1..(Len(samples) - 1) |->
               IF samples[k + 1] > samples[k] THEN samples[k + 1] - samples[k] ELSE 0])

\* C17: calculate_ascent is the sum of the positive differences between
\* consecutive altitude-bearing trackpoints, whatever the pattern of present
\* and absent altitudes: a trackpoint without altitude neither resets the
\* cursor nor contributes; the result is never negative.
C17_AscentBridgesGaps ==
    Converted =>
        \A k \in 1..Len(Source.laps) :
            LET ascent == Climb(Samples(Source.laps[k].trackpoints))
            IN  /\ calculate_ascent(Source.laps[k]) = ascent
                /\ ascent >= 0
                /\ Output[k]["Total Ascentm"] =
                     IF ascent > 0 THEN Fmt2(ascent * 10) ELSE <<>>

\* 100.0 m, no altitude, 105.0 m: the gap is bridged, 5.00 m of ascent
C17_Witness ==
    /\ Converted
    /\ Source.laps[1].trackpoints = << <<1000>>, <<>>, <<1050>> >>
    /\ Output[1]["Total Ascentm"] = <<"5", ".", "0", "0">>

StrictlyIncreasing(samples) == \A k \in 1..(Len(samples) - 1) : samples[k] < samples[k + 1]
StrictlyDecreasing(samples) == \A k \in 1..(Len(samples) - 1) : samples[k] > samples[k + 1]
AllEqual(samples) == \A k \in 1..(Len(samples) - 1) : samples[k] = samples[k + 1]

\* C18: for strictly increasing altitude samples calculate_ascent is last
\* minus first; for strictly decreasing or constant samples, and for fewer
\* than two altitude-bearing trackpoints, it is 0.
C18_MonotoneAscent ==
    Converted =>
        \A k \in 1..Len(Source.laps) :
            LET samples == Samples(Source.laps[k].trackpoints)
                ascent == calculate_ascent(Source.laps[k])
            IN  /\ Len(samples) < 2 => ascent = 0
                /\ (Len(samples) >= 2 /\ StrictlyIncreasing(samples))
                     => ascent = samples[Len(samples)] - samples[1]
                /\ (StrictlyDecreasing(samples) \/ AllEqual(samples)) => ascent = 0
                /\ ascent = 0 <=> Output[k]["Total Ascentm"] = <<>>

\* 99.0 m, 100.0 m, 105.0 m: 6.00 m of ascent
C18_Witness ==
    /\ Converted
    /\ Source.laps[1].trackpoints = << <<990>>, <<1000>>, <<1050>> >>
    /\ Output[1]["Total Ascentm"] = <<"6", ".", "0", "0">>

\* C19: while the laps of a recording are converted the accumulator is the
\* sum of the times of the laps converted so far, each row carries the sum up
\* to its lap, the sums never decrease, and the summary row's Time and
\* Cumulative Time are those of the last lap.
C19_RunningSum ==
    /\ pc \in {"lap", "write"} =>
          /\ cumulative_time = TimeUpTo(Source.laps, Len(data))
          /\ \A k \in 1..Len(data) :
                /\ data[k]["Cumulative Time"] =
                     format_seconds_to_time(TimeUpTo(Source.laps, k))
                /\ TimeUpTo(Source.laps, k) >= TimeUpTo(Source.laps, k - 1)
    /\ Converted =>
          LET n == Len(Source.laps)
          IN  /\ cumulative_time = TimeUpTo(Source.laps, n)
              /\ Output[n + 1]["Time"] = format_seconds_to_time(cumulative_time)
              /\ Output[n + 1]["Time"] = Output[n]["Cumulative Time"]
              /\ Output[n + 1]["Cumulative Time"] = Output[n]["Cumulative Time"]

\* two laps of 59.96 s and 300 s
C19_Witness ==
    /\ Converted
    /\ Len(Source.laps) = 2
    /\ Source.laps[1].TotalTimeSeconds = <<5996>>
    /\ Source.laps[2].TotalTimeSeconds = <<30000>>
    /\ cumulative_time = 35996
    /\ Output[1]["Cumulative Time"] # Output[2]["Cumulative Time"]
    /\ Output[3]["Time"] = Output[2]["Cumulative Time"]


(***************************************************************************)
(* Fresh accumulators for every conversion and every lap.                  *)
(***************************************************************************)
\* C20: the file written for a recording is a function of that recording
\* alone, whatever was converted before it in the same run, and the ascent
\* of each of its laps is the climb between that lap's own altitude samples:
\* nothing is counted from the last point of the lap before.
C20_NoLeakAcrossFilesOrLaps ==
    [][ \A p \in DOMAIN csvDir' :
          (p \notin DOMAIN csvDir \/ csvDir'[p] # csvDir[p])
              => LET doc == tcxDir.files[tcx_path]
                 IN  /\ csvDir'[p] = Conversion(doc)
                     /\ \A k \in 1..Len(doc.laps) :
                          LET ascent == Climb(Samples(doc.laps[k].trackpoints))
                          IN  csvDir'[p].rows[k]["Total Ascentm"] =
                                IF ascent > 0 THEN Fmt2(ascent * 10) ELSE <<>> ]_vars

\* one batch run converted two recordings, one of them of two laps whose
\* second lap starts higher than the first lap ended
C20_Witness ==
    /\ BatchMode
    /\ pc = "exit"
    /\ CountMsg("Successfully converted") = 2
    /\ \E j, k \in 1..Len(printed) :
          /\ j < k
          /\ printed[j].msg = "Successfully converted"
          /\ printed[k] = Msg("Processed laps", <<2>>)
          /\ printed[k - 1].msg = "Successfully converted"
          /\ j < k - 1
    /\ \E p \in DOMAIN csvDir :
          /\ Len(csvDir[p].rows) = 3
          /\ csvDir[p].rows[2]["Total Ascentm"] = <<"2", ".", "0", "0">>


(***************************************************************************)
(* The summary row.                                                        *)
(***************************************************************************)
\* metres to 1/100 km, rounded to the nearest (no distance of the
\* recordings explored lies half-way)
Nearest100th(metres) == (metres + 5) \div 10

RoundedDistances(lapseq) ==
    [k \in 1..Len(lapseq) |-> Nearest100th(lapseq[k].DistanceMeters[1])]

RawDistances(lapseq) == [k \in 1..Len(lapseq) |-> lapseq[k].DistanceMeters[1]]

Summary == Output[Len(Output)]

\* C21: the summary's Distancekm is the sum of the lap distances as printed
\* in the lap rows, each rounded to two decimals, and not the rounding of
\* the sum of the raw lap distances.
C21_SumOfRoundedDistances ==
    Converted =>
        /\ \A k \in 1..Len(Source.laps) :
              Output[k]["Distancekm"] = Fmt2(RoundedDistances(Source.laps)[k])
        /\ Summary["Distancekm"] = Fmt2(SeqSum(RoundedDistances(Source.laps)))

\* two laps of 754 m: 0.75 + 0.75 = 1.50, where 1508 m would round to 1.51
C21_Witness ==
    /\ Converted
    /\ RawDistances(Source.laps) = <<754, 754>>
    /\ Summary["Distancekm"] = <<"1", ".", "5", "0">>
    /\ Fmt2(Nearest100th(SeqSum(RawDistances(Source.laps)))) = <<"1", ".", "5", "1">>


CaloriesOf(lapseq) == [k \in 1..Len(lapseq) |-> lapseq[k].Calories[1]]

\* the ascent of each lap in 1/100 m, 0 for a lap whose column is blank
AscentsOf(lapseq) == [k \in 1..Len(lapseq) |-> 10 * Climb(Samples(lapseq[k].trackpoints))]

\* C22: the summary's CaloriesC is the sum of the lap calories, its Total
\* Ascentm is the sum of the lap ascent columns with a blank column counted
\* as 0, and the summary ascent is blank exactly when that sum is 0.
C22_SummaryCaloriesAndAscent ==
    Converted =>
        LET total_ascent == SeqSum(AscentsOf(Source.laps))
        IN  /\ Summary["CaloriesC"] = Str(SeqSum(CaloriesOf(Source.laps)))
            /\ \A k \in 1..Len(Source.laps) :
                  Output[k]["Total Ascentm"] = <<>> <=> AscentsOf(Source.laps)[k] = 0
            /\ total_ascent > 0 => Summary["Total Ascentm"] = Fmt2(total_ascent)
            /\ Summary["Total Ascentm"] = <<>> <=> total_ascent = 0

\* a lap without trackpoints and a lap that climbs 5 m; 0 + 95 calories
C22_Witness ==
    /\ Converted
    /\ Len(Source.laps) = 2
    /\ Output[1]["Total Ascentm"] = <<>>
    /\ Output[2]["Total Ascentm"] = <<"5", ".", "0", "0">>
    /\ Summary["Total Ascentm"] = <<"5", ".", "0", "0">>
    /\ Summary["CaloriesC"] = <<"9", "5">>


\* C23: the summary's Avg HRbpm is the mean, truncated to an integer, of the
\* average heart rates of the laps that have one, its Max HRbpm the maximum
\* over the laps that have a maximum heart rate; each is empty exactly when
\* no lap has the value.
C23_SummaryHeartRate ==
    Converted =>
        LET avgs == ValuesOf(Source.laps, "AverageHeartRateBpm")
            maxs == ValuesOf(Source.laps, "MaximumHeartRateBpm")
        IN  /\ Summary["Avg HRbpm"] = <<>> <=> avgs = <<>>
            /\ Summary["Max HRbpm"] = <<>> <=> maxs = <<>>
            /\ avgs # <<>> =>
                  \E m \in 0..200 :
                      /\ Summary["Avg HRbpm"] = Str(m)
                      /\ m * Len(avgs) <= SeqSum(avgs)
                      /\ SeqSum(avgs) < (m + 1) * Len(avgs)
            /\ maxs # <<>> =>
                  \E k \in 1..Len(maxs) :
                      /\ Summary["Max HRbpm"] = Str(maxs[k])
                      /\ \A j \in 1..Len(maxs) : maxs[j] <= maxs[k]

\* laps of 150 and 155: the mean 152.5 is written 152
C23_Witness ==
    /\ Converted
    /\ ValuesOf(Source.laps, "AverageHeartRateBpm") = <<150, 155>>
    /\ Summary["Avg HRbpm"] = <<"1", "5", "2">>
    /\ Summary["Max HRbpm"] = <<"1", "6", "5">>


\* "M:SS" of a whole number of seconds
MinSec(whole) == Str(whole \div 60) \o <<":">> \o Pad2(whole % 60)

\* the pace of each lap in whole seconds per km (laps of positive distance)
LapPaces(lapseq) ==
    [k \in 1..Len(lapseq) |->
        (lapseq[k].TotalTimeSeconds[1] * 10) \div lapseq[k].DistanceMeters[1]]

\* C24: the summary's pace is the total time of all laps divided by the
\* summary's total distance, rendered with the rule of a lap's pace (whole
\* seconds, truncated; empty for a pace of 0); it is empty when the total
\* distance is 0, and it is not the average of the lap paces.
C24_SummaryPaceFromTotals ==
    Converted =>
        LET total_time == TimeUpTo(Source.laps, Len(Source.laps))
            total_distance == SeqSum(RoundedDistances(Source.laps))
        IN  /\ total_distance = 0 => Summary["Avg Pacemin/km"] = <<>>
            /\ (total_distance > 0 /\ total_time = 0) => Summary["Avg Pacemin/km"] = <<>>
            /\ (total_distance > 0 /\ total_time > 0)
                 => Summary["Avg Pacemin/km"] = MinSec(total_time \div total_distance)
            /\ Summary["Avg GAPmin/km"] = Summary["Avg Pacemin/km"]

\* 59.96 s over 754 m and 300 s over 1000 m: the lap paces are 1:19 and 5:00,
\* their average 3:09, the summary's pace 3:25
C24_Witness ==
    /\ Converted
    /\ RawDistances(Source.laps) = <<754, 1000>>
    /\ LapPaces(Source.laps) = <<79, 300>>
    /\ Output[1]["Avg Pacemin/km"] = <<"1", ":", "1", "9">>
    /\ Output[2]["Avg Pacemin/km"] = <<"5", ":", "0", "0">>
    /\ Summary["Avg Pacemin/km"] = <<"3", ":", "2", "5">>


\* the columns no element of a TCX lap is read for
NeverFilled ==
    {"Total Descentm", "Avg PowerW", "Avg W/kg", "Max PowerW", "Max W/kg",
     "Avg Run Cadencespm", "Max Run Cadencespm", "Avg Ground Contact Timems",
     "Avg GCT Balance%", "Avg Stride Lengthm", "Avg Vertical Oscillationcm",
     "Avg Vertical Ratio%", "Avg Temperature", "Avg Step Speed Losscm/s",
     "Avg Step Speed Loss Percent%"}

MovingColumns == {"Best Pacemin/km", "Moving Time", "Avg Moving Pacemin/km"}

\* C25 (as amended): in every lap row and in the summary row the descent,
\* power, cadence, ground-contact, stride-length, vertical-oscillation,
\* vertical-ratio, temperature and step-speed-loss columns are empty; Moving
\* Time repeats the row's Time and Avg Moving Pace the row's pace; Best Pace
\* repeats the pace in a lap row and is empty in the summary row.
C25_UnderivedColumnsBlank ==
    Converted =>
        /\ \A k \in 1..Len(Output) :
              /\ \A c \in NeverFilled : Output[k][c] = <<>>
              /\ Output[k]["Moving Time"] = Output[k]["Time"]
              /\ Output[k]["Avg Moving Pacemin/km"] = Output[k]["Avg Pacemin/km"]
        /\ \A k \in 1..(Len(Output) - 1) :
              Output[k]["Best Pacemin/km"] = Output[k]["Avg Pacemin/km"]
        /\ Summary["Best Pacemin/km"] = <<>>

\* a lap of 300 s over 1000 m: Moving Time 5:00.0, best and moving pace 5:00
C25_Witness ==
    /\ Converted
    /\ Output[1]["Moving Time"] = <<"5", ":", "0", "0", ".", "0">>
    /\ Output[1]["Best Pacemin/km"] = <<"5", ":", "0", "0">>
    /\ Output[1]["Avg Moving Pacemin/km"] = <<"5", ":", "0", "0">>
    /\ Summary["Avg Moving Pacemin/km"] # <<>>
    /\ Summary["Best Pacemin/km"] = <<>>

\* C25 (as stated): also the best-pace, moving-time and moving-pace columns
\* are empty in every row
C25_AllUnderivedBlank ==
    Converted =>
        \A k \in 1..Len(Output) : \A c \in NeverFilled \cup MovingColumns : Output[k][c] = <<>>


ZeroDistance == <<"0", ".", "0", "0">>

\* C26: in every row, lap or summary, the pace is empty whenever the row's
\* Distancekm is "0.00"; so for a recording of one lap of such a distance the
\* lap row and the summary row show the same pace.
C26_NoPaceForZeroDistance ==
    Converted =>
        /\ \A k \in 1..Len(Output) :
              Output[k]["Distancekm"] = ZeroDistance => Output[k]["Avg Pacemin/km"] = <<>>
        /\ (Len(Source.laps) = 1 /\ Output[1]["Distancekm"] = ZeroDistance)
              => Output[1]["Avg Pacemin/km"] = Summary["Avg Pacemin/km"]

\* the field of seconds of a time "M:SS.s": two digits, a point, one digit,
\* and a value below 60.0
SecondsFieldBelow60(cell) ==
    LET n == Len(cell)
    IN  /\ n >= 6
        /\ cell[n - 4] = ":"
        /\ cell[n - 1] = "."
        /\ \A j \in (1..n) \ {n - 4, n - 1} : cell[j] \in {DigitChars[d] : d \in 1..10}
        /\ cell[n - 3] \in {"0", "1", "2", "3", "4", "5"}

\* C27: every duration is rendered as minutes and a field of seconds with
\* two integer digits and one decimal whose value is below 60.0; 59.96 s
\* does not render with a seconds field of "60.0".
C27_SecondsBelowSixty ==
    Converted =>
        \A k \in 1..Len(Output) :
            /\ SecondsFieldBelow60(Output[k]["Time"])
            /\ SecondsFieldBelow60(Output[k]["Cumulative Time"])


(***************************************************************************)
(* Failed recordings over repeated batch runs.                             *)
(***************************************************************************)
\* C28: a recording whose conversion failed, or that had no laps, in a batch
\* run has no output file when that run has ended, and in every later batch
\* run it is attempted again and never reported as skipped.
C28_FailedIsRetried ==
    BatchMode =>
        \A f \in failed :
            /\ ~Printed("Skipping", f)
            /\ pc = "exit" => /\ CsvFilename(f) \notin DOMAIN csvDir
                              /\ Printed("Converting", f)


(***************************************************************************)
(* garmin_pull.py                                                          *)
(***************************************************************************)
\* the activity is inside the date range a run started now or later queries
InQueriedRange(activity) == activity.day >= get_last_download_date - 1

\* C29: the watermark is not advanced past a running activity that has not
\* been stored: an activity whose download raised an error in a run is
\* inside the queried date range of the later runs until it has been saved.
C29_WatermarkKeepsFailedActivity ==
    \A a \in Activities : a.activityId \in errored => InQueriedRange(a)

Stored(dir, activity) ==
    \E n \in DOMAIN dir : dir[n].activityId = activity.activityId

\* C30: when a run of download_tcx_files ends with every download having
\* given its TCX, each running activity of the queried range is stored in a
\* file of raw_tcx, also when two of them start on the same date, and no
\* file stored earlier holds another activity than before.
C30_EveryReturnedRunIsStored ==
    [][(/\ pullResult' = "complete"
        /\ \A a \in DOMAIN lastOutcome' : lastOutcome'[a] = "ok")
          => /\ \A a \in Activities :
                   a.activityId \in DOMAIN lastOutcome' => Stored(raw', a)
             /\ \A n \in DOMAIN raw :
                   /\ n \in DOMAIN raw'
                   /\ raw'[n].activityId = raw[n].activityId]_vars

====
